---- MODULE Spec2Model ----
(***************************************************************************)
(* Replication pipeline engine of databases-snowflake-replication.         *)
(*                                                                         *)
(* Spec      : Main.__init__'s filter of the table entries, then           *)
(*             TaskManagerClient.start_replication: the thread pool and    *)
(*             one __task_definition per table spec, step by step.         *)
(* SpecTable : repeated start_replication calls for one table, with the    *)
(*             file sweep of __upload_files and the warehouse commands of  *)
(*             SnowflakeClient in full.                                    *)
(* SpecSweep : one sweep of __upload_files over a local directory, with    *)
(*             the date read for each file's partition segment.            *)
(* SpecBatch : DatabaseClient.execute_query.batch_extraction driven by the *)
(*             batched branch of __task_definition.                        *)
(* SpecShared: one start_replication call over specs whose targets may    *)
(*             name the same table, with extraction and sweep in full.     *)
(* SpecFiles : Main.__init__'s loop over the config files around Spec.     *)
(* SpecLive, SpecBatchLive : Spec and SpecBatch with fairness.             *)
(***************************************************************************)
EXTENDS Integers, Sequences, FiniteSets, TLC

\* ---- bounds -------------------------------------------------------------
NumSpecs == 2
MaxDateChanges == 1
MaxWorkers == 2
MaxRuns == 2
MaxNewFiles == 1
RowsPerFile == 1
MaxRows == 4
MaxSize == 3
MaxConfigFiles == 2

Specs == 1..NumSpecs
MaxFileId == MaxRuns * MaxNewFiles
FileIds == 1..MaxFileId

VARIABLES
    \* collaborators and settings handed to TaskManagerClient.__init__
    snowflake_client,             \* TRUE when a SnowflakeClient is configured
    stages_type,                  \* "internal" | "external"
    cloud_client,                 \* TRUE when a cloud client is configured
    exclude_file_after_uploading, \* FileServiceClient setting
    partitionate_data,            \* cloud client setting: date-partitioned paths
    max_workers,
    tables,                       \* the 'tables' entry of the config file
    tables_configs,               \* the specs passed to start_replication
    \* start_replication
    run,                          \* number of the current start_replication call
    orch,                         \* "setup" | "submit" | "results" | "returned" | "raised",
                                  \* and of Main: "completed" | "exited"
    raisedTask,                   \* spec whose exception task.result() re-raised, 0 if none
    setups,                       \* namespace setups executed in this call
    \* one future / __task_definition invocation per spec
    pc,
    started,                      \* times the spec's task was started in this call
    events,                       \* what the invocation logged: failed or empty
                                  \* source query, failed warehouse commands
    cmds,                         \* steps (Spec) or transfer and warehouse commands
                                  \* (SpecTable) of this invocation, in order
    remaining_files,              \* files of the sweep not yet handled
    partitions,                   \* dates of the year=/month=/day= segments the
                                  \* invocation uploaded files under
    \* local storage, object storage and warehouse, per table
    local,                        \* files in each local directory
    written,                      \* number of files ever written to the directory
    cloudObj,                     \* files that reached object storage
    putFiles,                     \* files that reached the internal stage
    stageExists,
    tableExists,
    loaded,                       \* the stage's record of files already loaded
    rows,                         \* copies of each file's rows in the target table
    lastLoad,                     \* record of the last execute_copy_command
    today,                        \* the date datetime.now() gives, as the number
                                  \* of date changes so far
    \* batched extraction of one table (execute_query with size set)
    size,                         \* batch size
    total_records,                \* row count obtained upfront
    resultRows,                   \* rows the extraction query's cursor holds
    fetched,                      \* rows of the cursor consumed so far
    count,
    count_failed,
    batch,                        \* the generator's `rows` of the current batch
    slot,                         \* iterations of `for _ in range(size)` done
    bpc,                          \* "idle" | "loop" | "end" | "closed"
    batch_count,
    files,                        \* contents of the files written, in order
    failedRows                    \* rows whose fetch raised

cfgvars == <<snowflake_client, stages_type, cloud_client,
             exclude_file_after_uploading, partitionate_data, max_workers,
             tables, tables_configs>>
orchvars == <<run, orch, raisedTask, setups>>
taskvars == <<pc, started, events, cmds, remaining_files, partitions>>
storevars == <<local, written, cloudObj, putFiles, stageExists, tableExists,
               loaded, rows, lastLoad, today>>
batchvars == <<size, total_records, resultRows, fetched, count, count_failed,
               batch, slot, bpc, batch_count, files, failedRows>>
vars == <<cfgvars, orchvars, taskvars, storevars, batchvars>>

\* ---- helpers ------------------------------------------------------------
Min(S) == CHOOSE x \in S : \A y \in S : x <= y

RECURSIVE SumCopies(_, _)
SumCopies(bag, S) ==
    IF S = {} THEN 0
    ELSE LET f == Min(S) IN bag[f] + SumCopies(bag, S \ {f})

\* number of rows in the target table of t
RowCount(t) == RowsPerFile * SumCopies(rows[t], FileIds)

\* outcomes of one SnowflakeClient.execute_query call: the command succeeds,
\* fails with ProgrammingError (logged, [] returned), or raises anything else
Outcomes == {"ok", "programming_error", "exception"}

\* execute_query returns normally unless the error is not a ProgrammingError
Returns(outcome) == outcome # "exception"

TerminalPcs == {"done", "failed"}
RunningPcs == {"extract", "create_stage", "upload", "transfer",
               "create_table", "copy", "view"}

Running == Cardinality({t \in tables_configs : pc[t] \in RunningPcs})

\* files visible through the table's stage
StageFiles(t) ==
    IF ~stageExists[t] THEN {}
    ELSE IF stages_type = "internal" THEN putFiles[t] ELSE cloudObj[t]

\* ---- collaborators the task manager calls -------------------------------
\* FileServiceClient.write_file: the directory after n new files are written
write_file(dir, first, n) == dir \cup (first..(first + n - 1))

\* FileServiceClient.list_files_in_directory
list_files_in_directory(dir) == dir

\* FileServiceClient.delete_file
delete_file(dir, f) == dir \ {f}

\* cloud client upload_file: the status returned is whether the upload worked
upload_file(uploaded) == uploaded

\* ---- __task_definition: order of the steps -------------------------------
\* variant: the stage is created whether or not a warehouse is configured
StepsStageAlways ==
    <<"extract", "create_stage">>
    \o (IF snowflake_client \/ cloud_client THEN <<"upload">> ELSE <<>>)
    \o (IF snowflake_client THEN <<"create_table", "copy", "view">> ELSE <<>>)

\* variant: the sweep before the stage creation
StepsSwapped ==
    <<"extract">>
    \o (IF snowflake_client \/ cloud_client THEN <<"upload">> ELSE <<>>)
    \o (IF snowflake_client THEN <<"create_stage">> ELSE <<>>)
    \o (IF snowflake_client THEN <<"create_table", "copy", "view">> ELSE <<>>)

\* lines 117-161: the steps an invocation goes through, given the clients set
Steps ==
    <<"extract">>
    \o (IF snowflake_client THEN <<"create_stage">> ELSE <<>>)
    \o (IF snowflake_client \/ cloud_client THEN <<"upload">> ELSE <<>>)
    \o (IF snowflake_client THEN <<"create_table", "copy", "view">> ELSE <<>>)

After(step) ==
    LET i == CHOOSE k \in 1..Len(Steps) : Steps[k] = step
    IN IF i = Len(Steps) THEN "done" ELSE Steps[i + 1]

\* variant: the failure of t also ends the tasks still queued
RaiseCancelSiblings(t) ==
    [u \in Specs |-> IF u = t THEN "failed"
                     ELSE IF pc[u] = "queued" THEN "failed" ELSE pc[u]]

\* an exception leaving __task_definition is stored in the task's own future
Raise(t) == [pc EXCEPT ![t] = "failed"]

\* pc after a step of t that ended with the given outcome
Step(t, step, outcome) ==
    IF Returns(outcome) THEN [pc EXCEPT ![t] = After(step)] ELSE Raise(t)

Issue(t, cmd, f) == [cmds EXCEPT ![t] = Append(@, <<cmd, f>>)]

\* ---- Main.__init__: the table specs of a config file ---------------------
VALID_FILE_FORMATS == {"csv", "parquet"}

\* tables are named by numbers: NoName stands for an entry without a name,
\* Ghost for a name the source database does not know
NoName == 0
Ghost == NumSpecs + 1

\* DatabaseClient.source_tables: the tables found in the source schema
source_db_tables == Specs

\* entries the t-th place of a config file can hold: table t replicated or
\* not, or an entry with the table name missing or unknown to the source
\* database, or with a file format that is not valid
ConfigInputs(t) ==
    {[replicate |-> TRUE,  table_name |-> t,      file_format |-> "parquet", table_renamed |-> NoName],
     [replicate |-> FALSE, table_name |-> t,      file_format |-> "csv",     table_renamed |-> NoName],
     [replicate |-> FALSE, table_name |-> NoName, file_format |-> "csv",     table_renamed |-> NoName],
     [replicate |-> TRUE,  table_name |-> NoName, file_format |-> "csv",     table_renamed |-> NoName],
     [replicate |-> TRUE,  table_name |-> t,      file_format |-> "xml",     table_renamed |-> NoName],
     [replicate |-> TRUE,  table_name |-> Ghost,  file_format |-> "csv",     table_renamed |-> NoName]}

\* replicated entries whose target is table t under its own name, table t
\* renamed to the first table's name, or the first table listed once more
SharedInputs(t) ==
    {[replicate |-> TRUE, table_name |-> t, file_format |-> "parquet", table_renamed |-> NoName],
     [replicate |-> TRUE, table_name |-> t, file_format |-> "parquet", table_renamed |-> 1],
     [replicate |-> TRUE, table_name |-> 1, file_format |-> "parquet", table_renamed |-> NoName]}

\* variant: the replicate flag is not looked at
validate_ignoring_replicate(table_config) ==
    \/ table_config.table_name = NoName
    \/ table_config.file_format \notin VALID_FILE_FORMATS
    \/ table_config.table_name \notin source_db_tables

\* main.py lines 262-290: TRUE when the table entry is to be skipped
validate_if_table_config_is_invalid(table_config) ==
    \/ ~table_config.replicate
    \/ table_config.table_name = NoName
    \/ table_config.file_format \notin VALID_FILE_FORMATS
    \/ table_config.table_name \notin source_db_tables

\* main.py lines 84-93: the entries handed to start_replication
filtered_tables_configs ==
    {t \in Specs : ~validate_if_table_config_is_invalid(tables[t])}

\* a config file whose first entry only is replicated
OnlyFirst ==
    [t \in Specs |->
       [replicate |-> t = 1, table_name |-> t, file_format |-> "parquet",
        table_renamed |-> NoName]]

\* task_manager_client.py lines 75-90: the local directory of a spec is
\* named after table_renamed, or after the table when it is not renamed
local_storage_path(t) ==
    IF tables[t].table_renamed # NoName
    THEN tables[t].table_renamed ELSE tables[t].table_name

\* ---- Init ---------------------------------------------------------------
\* no execute_copy_command has run yet for the table
NoLoad == [staged |-> {0}, fresh |-> {}, ok |-> FALSE, repeat |-> FALSE, first |-> 0]

\* the batched extraction before execute_query is called with a size
BatchStart ==
    /\ fetched = 0
    /\ count = 0
    /\ count_failed = 0
    /\ batch = <<>>
    /\ slot = 0
    /\ batch_count = 0
    /\ files = <<>>
    /\ failedRows = {}

BatchIdle ==
    /\ size = 1
    /\ total_records = 0
    /\ resultRows = 0
    /\ bpc = "idle"
    /\ BatchStart

InitFor(configs) ==
    /\ BatchIdle
    /\ snowflake_client \in BOOLEAN
    /\ cloud_client \in BOOLEAN
    /\ stages_type \in {"internal", "external"}
    \* main.py:180 external stages need a cloud client; without a warehouse
    \* the stage type is never read
    /\ stages_type = "external" => (snowflake_client /\ cloud_client)
    /\ exclude_file_after_uploading \in BOOLEAN
    \* line 105: paths are partitioned only when the cloud client says so
    /\ partitionate_data \in BOOLEAN
    /\ partitionate_data => cloud_client
    /\ max_workers \in 1..MaxWorkers
    /\ tables_configs = configs
    /\ run = 1
    /\ orch = "setup"
    /\ raisedTask = 0
    /\ setups = 0
    /\ pc = [t \in Specs |-> "idle"]
    /\ started = [t \in Specs |-> 0]
    /\ events = [t \in Specs |-> {}]
    /\ partitions = [t \in Specs |-> {}]
    /\ cmds = [t \in Specs |-> <<>>]
    /\ remaining_files = [t \in Specs |-> {}]
    /\ local = [t \in Specs |-> {}]
    /\ written = [t \in Specs |-> 0]
    /\ cloudObj = [t \in Specs |-> {}]
    /\ putFiles = [t \in Specs |-> {}]
    /\ stageExists = [t \in Specs |-> FALSE]
    /\ tableExists = [t \in Specs |-> FALSE]
    /\ loaded = [t \in Specs |-> {}]
    /\ rows = [t \in Specs |-> [f \in FileIds |-> 0]]
    /\ lastLoad = [t \in Specs |-> NoLoad]
    /\ today = 0

\* ---- start_replication --------------------------------------------------
\* variant: the pool is created without the namespace setup
SetupLeftOut ==
    /\ orch = "setup"
    /\ orch' = "submit"
    /\ UNCHANGED <<batchvars, cfgvars, run, raisedTask, setups, taskvars, storevars>>

\* lines 236-240: namespace and file-format setup, when a warehouse is set
Setup ==
    /\ orch = "setup"
    /\ IF snowflake_client
       THEN \E outcome \in Outcomes :
              /\ setups' = setups + 1
              /\ orch' = IF Returns(outcome) THEN "submit" ELSE "raised"
       ELSE /\ orch' = "submit"
            /\ UNCHANGED setups
    /\ UNCHANGED <<batchvars, cfgvars, run, raisedTask, taskvars, storevars>>

\* variant: the last spec of the list is left out
AllSubmittedButLast ==
    \A t \in tables_configs : pc[t] # "idle" \/ (\A u \in tables_configs : u <= t)

\* the list comprehension of lines 245-249 has gone through tables_configs
AllSubmitted == \A t \in tables_configs : pc[t] # "idle"

\* variant: the pool is left as soon as one task has finished
FirstTaskFinished == \E t \in tables_configs : pc[t] \in TerminalPcs

\* ThreadPoolExecutor.__exit__ is shutdown(wait=True): every submitted task
\* has finished, normally or with an exception
AllTasksFinished == \A t \in tables_configs : pc[t] \in TerminalPcs \cup {"idle"}

\* lines 245-249: executor.submit for each table_config, in list order
Submit ==
    /\ orch = "submit"
    /\ \E t \in tables_configs :
         /\ pc[t] = "idle"
         /\ \A u \in tables_configs : u < t => pc[u] # "idle"
         /\ pc' = [pc EXCEPT ![t] = "queued"]
    /\ UNCHANGED <<batchvars, cfgvars, orchvars, started, events, partitions, cmds, remaining_files, storevars>>

\* line 242: leaving the with block
ExitPool ==
    /\ orch = "submit"
    /\ AllSubmitted
    /\ AllTasksFinished
    /\ orch' = "results"
    /\ UNCHANGED <<batchvars, cfgvars, run, raisedTask, setups, taskvars, storevars>>

\* lines 252-253: task.result() of each future in list order; result()
\* re-raises the exception the task ended with
CollectResults ==
    /\ orch = "results"
    /\ LET failed == {t \in tables_configs : pc[t] = "failed"} IN
         IF failed = {}
         THEN orch' = "returned" /\ UNCHANGED raisedTask
         ELSE orch' = "raised" /\ raisedTask' = Min(failed)
    /\ UNCHANGED <<batchvars, cfgvars, run, setups, taskvars, storevars>>

\* the next program run calls start_replication again with the same specs
NewRun ==
    /\ orch \in {"returned", "raised"}
    /\ run < MaxRuns
    /\ run' = run + 1
    /\ orch' = "setup"
    /\ raisedTask' = 0
    /\ setups' = 0
    /\ pc' = [t \in Specs |-> "idle"]
    /\ started' = [t \in Specs |-> 0]
    /\ events' = [t \in Specs |-> {}]
    /\ partitions' = [t \in Specs |-> {}]
    /\ cmds' = [t \in Specs |-> <<>>]
    /\ remaining_files' = [t \in Specs |-> {}]
    /\ UNCHANGED <<batchvars, cfgvars, storevars>>

\* ---- worker threads -----------------------------------------------------
\* variant: a thread is started for every task submitted
FreeWorkerAlways == TRUE

\* variant: the pool keeps one of its threads back
FreeWorkerButOne == Running + 1 < max_workers

\* line 242: ThreadPoolExecutor(max_workers) runs at most max_workers threads
FreeWorker == Running < max_workers

\* a free worker takes the oldest queued task (the pool's queue is FIFO)
StartTask(t) ==
    /\ pc[t] = "queued"
    /\ \A u \in tables_configs : u < t => pc[u] # "queued"
    /\ FreeWorker
    /\ pc' = [pc EXCEPT ![t] = "extract"]
    /\ started' = [started EXCEPT ![t] = @ + 1]
    /\ UNCHANGED <<batchvars, cfgvars, orchvars, events, partitions, cmds, remaining_files, storevars>>

\* one step of __task_definition (lines 111-161) seen from the pool: the
\* step returns and the task goes on, or it raises and the task ends. The
\* sweep of __upload_files turns every transfer failure into a False status
\* and does not raise.
RunStep(t) ==
    /\ pc[t] \in RunningPcs \ {"transfer"}
    /\ \E raises \in BOOLEAN :
         /\ raises => pc[t] # "upload"
         /\ pc' = IF raises THEN Raise(t) ELSE [pc EXCEPT ![t] = After(pc[t])]
    /\ cmds' = Issue(t, pc[t], 0)
    /\ UNCHANGED <<batchvars, cfgvars, orchvars, started, events, partitions, remaining_files, storevars>>

\* ---- __task_definition in full -----------------------------------------
\* what the source query of an invocation comes to: DatabaseClient.execute_query
\* caught an error and returned None, or the result set has no row, or rows
QueryResults == {"failed", "empty", "rows"}

\* the file writers handed the None of a failed query in place of the rows:
\* _write_parquet logs the TypeError and returns, _write_csv lets it through
WriteOfNone == {"returns", "raises"}

\* lines 117-129: with size set, the None of a failed count query is iterated
\* in get_number_of_records_for_table and the None of a failed extraction
\* query by `for batch in data`: the task raises. Lines 131-137: without
\* size, whatever execute_query returned is handed to write_file.
ExtractionRaises(batched, result, w) ==
    result = "failed" /\ (batched \/ w = "raises")

\* lines 125-129 and 134-137: the write_file calls of an invocation that
\* writes n files after the `before` files the directory has seen; the file
\* of a batch carries the batch number in its name
Writes(batched, before, n) ==
    [i \in 1..n |-> <<IF batched THEN "write_batch" ELSE "write_file", before + i>>]

\* lines 111-137: the source queries and write_file. Bulk mode writes the
\* rows to one file, batched mode one file per batch yielded (none when every
\* fetch of the first batch failed); an empty result leaves no data file.
Extract(t) ==
    /\ pc[t] = "extract"
    /\ \E batched \in BOOLEAN, result \in QueryResults, w \in WriteOfNone,
          n \in 0..MaxNewFiles :
         /\ (result = "failed" /\ ~batched) \/ w = "returns"
         /\ result # "rows" => n = 0
         /\ (result = "rows" /\ ~batched) => n = 1
         /\ written[local_storage_path(t)] + n <= MaxFileId
         /\ local' = [local EXCEPT ![local_storage_path(t)] = write_file(@, written[local_storage_path(t)] + 1, n)]
         /\ written' = [written EXCEPT ![local_storage_path(t)] = @ + n]
         /\ cmds' = [cmds EXCEPT ![t] = @ \o Writes(batched, written[local_storage_path(t)], n)]
         /\ events' = [events EXCEPT ![t] =
                         @ \cup (IF result = "failed" THEN {"query_failed"}
                                 ELSE IF result = "empty" THEN {"empty_result"}
                                 ELSE {})]
         /\ pc' = IF ExtractionRaises(batched, result, w)
                  THEN Raise(t) ELSE [pc EXCEPT ![t] = After("extract")]
    /\ UNCHANGED <<batchvars, cfgvars, orchvars, started, partitions, remaining_files,
                   cloudObj, putFiles, stageExists, tableExists, loaded, rows, lastLoad, today>>

\* lines 145-147 and SnowflakeClient.create_snowflake_stage:
\* CREATE STAGE IF NOT EXISTS
CreateStage(t) ==
    /\ pc[t] = "create_stage"
    /\ \E outcome \in Outcomes :
         /\ stageExists' = [stageExists EXCEPT ![t] = @ \/ outcome = "ok"]
         /\ events' = [events EXCEPT ![t] =
                         IF outcome = "ok" THEN @ ELSE @ \cup {"create_stage_failed"}]
         /\ pc' = Step(t, "create_stage", outcome)
    /\ cmds' = Issue(t, "create_stage", 0)
    /\ UNCHANGED <<batchvars, cfgvars, orchvars, started, partitions, remaining_files, local, written,
                   cloudObj, putFiles, tableExists, loaded, rows, lastLoad, today>>

\* lines 210-212: list_files_in_directory of the table's local directory
ListFiles(t) ==
    /\ pc[t] = "upload"
    /\ remaining_files' = [remaining_files EXCEPT ![t] =
                             list_files_in_directory(local[local_storage_path(t)])]
    /\ pc' = [pc EXCEPT ![t] = IF local[local_storage_path(t)] = {} THEN After("upload") ELSE "transfer"]
    /\ UNCHANGED <<batchvars, cfgvars, orchvars, started, events, partitions, cmds, storevars>>

\* SnowflakeClient.execute_put: True unless execute_query raised; a PUT that
\* failed with ProgrammingError was swallowed by execute_query
execute_put(outcome) == Returns(outcome)

\* variant: both transfers must have succeeded
ShouldDeleteBoth(status_put, status_cloud) ==
    (status_cloud /\ status_put) /\ exclude_file_after_uploading

\* variant: only the object-storage upload counts
ShouldDeleteCloudOnly(status_put, status_cloud) ==
    status_cloud /\ exclude_file_after_uploading

\* line 199: the condition under which the local file is deleted
ShouldDelete(status_put, status_cloud) ==
    (status_cloud \/ status_put) /\ exclude_file_after_uploading

\* outcomes a PUT can have: it can only succeed into an existing stage
PutOutcomes(t) ==
    (IF stageExists[t] THEN {"ok"} ELSE {}) \cup {"programming_error", "exception"}

\* variant: the loop is left after its first file
SweepEndsAfterFirst(t, f) == TRUE

\* line 214: the for loop over remaining_files ends with its last file
SweepEnds(t, f) == remaining_files[t] = {f}

\* variant: a PUT is issued whatever the type of the stages
DirectAnyStage == snowflake_client

\* line 188: the direct transfer is used with internal stages only
Direct == snowflake_client /\ stages_type = "internal"

\* variant: a file whose transfers failed stays in the list
RemainingAfterRetry(t, f, transferred) ==
    IF transferred THEN remaining_files[t] \ {f} ELSE remaining_files[t]

\* line 214: the loop goes on to the next file, whether or not the
\* transfers of this one worked
RemainingAfter(t, f, transferred) == remaining_files[t] \ {f}

\* lines 214-219 and __upload_put_then_delete_file for one listed file; lines
\* 178-185 read the date for the file's partition segment
Transfer(t) ==
    /\ pc[t] = "transfer"
    /\ remaining_files[t] # {}
    /\ LET f == Min(remaining_files[t])
           direct == Direct
           datetime_now == today
       IN \E po \in PutOutcomes(t), co \in BOOLEAN :
            LET status_put == IF direct THEN execute_put(po) ELSE FALSE
                status_cloud == IF cloud_client THEN upload_file(co) ELSE FALSE
                c1 == IF direct
                      THEN <<<<"put", f>>>>
                           \o (IF po = "ok" THEN <<>> ELSE <<<<"put_failed", f>>>>)
                           \o (IF status_put THEN <<<<"put_true", f>>>> ELSE <<>>)
                      ELSE <<>>
                c2 == IF cloud_client
                      THEN <<<<"upload", f>>>>
                           \o (IF co THEN <<>> ELSE <<<<"upload_failed", f>>>>)
                      ELSE <<>>
            IN /\ direct \/ po = "programming_error"
               /\ cloud_client \/ co = FALSE
               /\ putFiles' = [putFiles EXCEPT ![t] =
                                 IF direct /\ po = "ok" THEN @ \cup {f} ELSE @]
               /\ cloudObj' = [cloudObj EXCEPT ![t] =
                                 IF cloud_client /\ co THEN @ \cup {f} ELSE @]
               /\ partitions' = [partitions EXCEPT ![t] =
                                   IF cloud_client /\ partitionate_data /\ co
                                   THEN @ \cup {datetime_now} ELSE @]
               /\ local' = [local EXCEPT ![local_storage_path(t)] =
                              IF ShouldDelete(status_put, status_cloud)
                              THEN delete_file(@, f) ELSE @]
               /\ cmds' = [cmds EXCEPT ![t] = @ \o c1 \o c2]
               /\ remaining_files' = [remaining_files EXCEPT ![t] =
                                        RemainingAfter(t, f, status_put \/ status_cloud)]
               /\ pc' = [pc EXCEPT ![t] =
                           IF SweepEnds(t, f) THEN After("upload") ELSE @]
    /\ UNCHANGED <<batchvars, cfgvars, orchvars, started, events, written, stageExists,
                   tableExists, loaded, rows, lastLoad, today>>

\* outcomes of CREATE TABLE IF NOT EXISTS ... USING TEMPLATE (INFER_SCHEMA):
\* a no-op on an existing table, else the schema is inferred from a staged file
CreateTableOutcomes(t) ==
    (IF tableExists[t] \/ StageFiles(t) # {} THEN {"ok"} ELSE {})
    \cup {"programming_error", "exception"}

\* variant: CREATE OR REPLACE TABLE
CreateOrReplace(t) == [f \in FileIds |-> 0]

\* the rows of the table after a successful CREATE TABLE IF NOT EXISTS: an
\* existing table is left as it is, a new one is empty
CreateIfNotExists(t) == IF tableExists[t] THEN rows[t] ELSE [f \in FileIds |-> 0]

\* line 159 and SnowflakeClient.create_snowflake_table
CreateTable(t) ==
    /\ pc[t] = "create_table"
    /\ \E outcome \in CreateTableOutcomes(t) :
         /\ tableExists' = [tableExists EXCEPT ![t] = @ \/ outcome = "ok"]
         /\ rows' = [rows EXCEPT ![t] =
                       IF outcome = "ok" THEN CreateIfNotExists(t) ELSE @]
         /\ events' = [events EXCEPT ![t] =
                         IF outcome = "ok" THEN @ ELSE @ \cup {"create_table_failed"}]
         /\ pc' = Step(t, "create_table", outcome)
    /\ cmds' = Issue(t, "create_table", 0)
    /\ UNCHANGED <<batchvars, cfgvars, orchvars, started, partitions, remaining_files, local, written,
                   cloudObj, putFiles, stageExists, loaded, lastLoad, today>>

\* DELETE FROM needs the table; COPY INTO needs the table and the stage
DeleteOutcomes(t) ==
    (IF tableExists[t] THEN {"ok"} ELSE {}) \cup {"programming_error", "exception"}

CopyOutcomes(t) ==
    (IF tableExists[t] /\ stageExists[t] THEN {"ok"} ELSE {})
    \cup {"programming_error", "exception"}

\* variant: every file of the stage, loaded before or not
FilesToCopyIgnoringHistory(t) == StageFiles(t)

\* the files COPY INTO loads: those of the stage it has no load record for
FilesToCopy(t) == StageFiles(t) \ loaded[t]

\* variant: the rows stay
NotDeleted(t) == rows[t]

\* the table after DELETE FROM
Deleted(t) == [f \in FileIds |-> 0]

\* the table after COPY INTO applied to the table contents `before`
Copied(t, before) ==
    [f \in FileIds |-> IF f \in FilesToCopy(t) THEN before[f] + 1 ELSE before[f]]

\* line 160 and SnowflakeClient.execute_copy_command: DELETE FROM, then COPY INTO
\* (not issued when the DELETE raised)
ExecuteCopy(t) ==
    /\ pc[t] = "copy"
    /\ \E d \in DeleteOutcomes(t), c \in CopyOutcomes(t) :
         LET afterDelete == IF d = "ok" THEN Deleted(t) ELSE rows[t]
             copyRuns == Returns(d)
             bothOk == d = "ok" /\ c = "ok"
         IN /\ copyRuns \/ c = "programming_error"
            /\ rows' = [rows EXCEPT ![t] =
                          IF copyRuns /\ c = "ok"
                          THEN Copied(t, afterDelete) ELSE afterDelete]
            /\ loaded' = [loaded EXCEPT ![t] =
                            IF copyRuns /\ c = "ok" THEN @ \cup StageFiles(t) ELSE @]
            /\ cmds' = [cmds EXCEPT ![t] =
                          @ \o <<<<"delete", 0>>>>
                            \o (IF copyRuns THEN <<<<"copy", 0>>>> ELSE <<>>)]
            /\ lastLoad' = [lastLoad EXCEPT ![t] =
                              [staged |-> StageFiles(t),
                               fresh |-> StageFiles(t) \ loaded[t],
                               ok |-> bothOk,
                               repeat |-> bothOk /\ @.ok /\ @.staged = StageFiles(t),
                               first |-> RowCount(t)]]
            /\ events' = [events EXCEPT ![t] =
                            IF bothOk THEN @
                            ELSE IF d = "ok" THEN @ \cup {"load_failed", "copy_failed"}
                            ELSE @ \cup {"load_failed"}]
            /\ pc' = IF copyRuns /\ Returns(c)
                     THEN [pc EXCEPT ![t] = After("copy")] ELSE Raise(t)
    /\ UNCHANGED <<batchvars, cfgvars, orchvars, started, partitions, remaining_files, local, written,
                   cloudObj, putFiles, stageExists, tableExists, today>>

\* the date changes while a sweep is under way
DateChange ==
    /\ today < MaxDateChanges
    /\ \E t \in tables_configs : pc[t] = "transfer"
    /\ today' = today + 1
    /\ UNCHANGED <<batchvars, cfgvars, orchvars, taskvars, local, written, cloudObj,
                   putFiles, stageExists, tableExists, loaded, rows, lastLoad>>

\* line 161 and SnowflakeClient.create_snowflake_view
CreateView(t) ==
    /\ pc[t] = "view"
    /\ \E outcome \in Outcomes : pc' = Step(t, "view", outcome)
    /\ cmds' = Issue(t, "view", 0)
    /\ UNCHANGED <<batchvars, cfgvars, orchvars, started, events, partitions, remaining_files, storevars>>

\* ---- batched extraction -------------------------------------------------
\* variant: one iteration too many
RangeSizePlusOne == size + 1

\* number of iterations of `for _ in range(size)`
RangeSize == size

\* variant: the upfront count is not looked at
CountNeverReached == FALSE

\* line 84: `if count == total_records: break`
CountReached == count = total_records

Fetching == bpc = "loop" /\ slot < RangeSize /\ ~CountReached

\* lines 86-90: fetchone returned a row
FetchRow ==
    /\ Fetching
    /\ fetched < resultRows
    /\ fetched' = fetched + 1
    /\ count' = count + 1
    /\ batch' = Append(batch, fetched + 1)
    /\ slot' = slot + 1
    /\ UNCHANGED <<size, total_records, resultRows, count_failed, bpc,
                   batch_count, files, failedRows,
                   cfgvars, orchvars, taskvars, storevars>>

\* line 91: fetchone returned no row, the for loop is left
FetchNone ==
    /\ Fetching
    /\ fetched = resultRows
    /\ bpc' = "end"
    /\ UNCHANGED <<size, total_records, resultRows, fetched, count, count_failed,
                   batch, slot, batch_count, files, failedRows,
                   cfgvars, orchvars, taskvars, storevars>>

\* lines 92-96: fetchone raised; the row it was reading is lost, the failure
\* is counted and the loop goes on with the next iteration
FetchFails ==
    /\ Fetching
    /\ count_failed' = count_failed + 1
    /\ slot' = slot + 1
    /\ IF fetched < resultRows
       THEN /\ fetched' = fetched + 1
            /\ failedRows' = failedRows \cup {fetched + 1}
       ELSE UNCHANGED <<fetched, failedRows>>
    /\ UNCHANGED <<size, total_records, resultRows, count, batch, bpc,
                   batch_count, files,
                   cfgvars, orchvars, taskvars, storevars>>

\* lines 83-84: the for loop ends after range(size) iterations, or breaks
\* once count has reached total_records
LeaveFor ==
    /\ bpc = "loop"
    /\ slot = RangeSize \/ CountReached
    /\ bpc' = "end"
    /\ UNCHANGED <<size, total_records, resultRows, fetched, count, count_failed,
                   batch, slot, batch_count, files, failedRows,
                   cfgvars, orchvars, taskvars, storevars>>

\* variant: the file named after the number of rows of the batch
BatchFileNameByLength == Len(batch)

\* task_manager_client.py line 126: f'{batch_count}_{file_name}', where
\* file_name (lines 106-108) is the same for every batch of the invocation
BatchFileName == batch_count

\* line 110 and task_manager_client.py lines 124-129: a non-empty batch is
\* yielded and written to the file named after batch_count
YieldBatch ==
    /\ bpc = "end"
    /\ batch # <<>>
    /\ files' = Append(files, batch)
    /\ cmds' = [t \in Specs |->
                 IF pc[t] = "extract"
                 THEN Append(cmds[t], <<"write_batch", BatchFileName>>)
                 ELSE cmds[t]]
    /\ batch_count' = batch_count + 1
    /\ batch' = <<>>
    /\ slot' = 0
    /\ bpc' = "loop"
    /\ UNCHANGED <<size, total_records, resultRows, fetched, count, count_failed,
                   failedRows, cfgvars, orchvars, pc, started, events,
                   remaining_files, partitions, storevars>>

\* variant: no batch ends the generator
GeneratorNeverEnds == FALSE

\* lines 107-108: `if not rows: break`
GeneratorEnds == batch = <<>>

\* lines 107-108 and 112: an empty batch ends the generator
Close ==
    /\ bpc = "end"
    /\ GeneratorEnds
    /\ bpc' = "closed"
    /\ UNCHANGED <<size, total_records, resultRows, fetched, count, count_failed,
                   batch, slot, batch_count, files, failedRows,
                   cfgvars, orchvars, taskvars, storevars>>

\* ---- specifications -----------------------------------------------------
Init ==
    /\ tables \in {c \in [Specs -> UNION {ConfigInputs(t) : t \in Specs}] :
                    \A t \in Specs : c[t] \in ConfigInputs(t)}
    /\ InitFor(filtered_tables_configs)

Next ==
    \/ Setup
    \/ Submit
    \/ ExitPool
    \/ CollectResults
    \/ \E t \in tables_configs : StartTask(t)
    \/ \E t \in tables_configs : RunStep(t)

Spec == Init /\ [][Next]_vars

\* the calling thread goes on through start_replication, an idle worker
\* thread takes the oldest queued task, and a started pipeline takes its
\* next step until it has ended
SpecLive ==
    /\ Spec
    /\ WF_vars(Setup)
    /\ WF_vars(Submit)
    /\ WF_vars(ExitPool)
    /\ WF_vars(CollectResults)
    /\ \A t \in Specs : WF_vars(StartTask(t)) /\ WF_vars(RunStep(t))

InitTable ==
    /\ tables = OnlyFirst
    /\ InitFor(filtered_tables_configs)
    /\ max_workers = 1

NextTable ==
    \/ Setup
    \/ Submit
    \/ ExitPool
    \/ CollectResults
    \/ NewRun
    \/ \E t \in tables_configs : StartTask(t)
    \/ \E t \in tables_configs : Extract(t)
    \/ \E t \in tables_configs : CreateStage(t)
    \/ \E t \in tables_configs : ListFiles(t)
    \/ \E t \in tables_configs : Transfer(t)
    \/ \E t \in tables_configs : CreateTable(t)
    \/ \E t \in tables_configs : ExecuteCopy(t)
    \/ \E t \in tables_configs : CreateView(t)

SpecTable == InitTable /\ [][NextTable]_vars

\* one invocation for one table, from its sweep on, over the files that
\* earlier invocations and its own extraction left in the local directory
InitSweep ==
    /\ BatchIdle
    /\ snowflake_client \in BOOLEAN
    /\ cloud_client \in BOOLEAN
    /\ snowflake_client \/ cloud_client
    /\ stages_type \in {"internal", "external"}
    /\ stages_type = "external" => (snowflake_client /\ cloud_client)
    /\ exclude_file_after_uploading \in BOOLEAN
    /\ partitionate_data \in BOOLEAN
    /\ partitionate_data => cloud_client
    /\ max_workers = 1
    /\ tables = OnlyFirst
    /\ tables_configs = filtered_tables_configs
    /\ run = 1
    /\ orch = "submit"
    /\ raisedTask = 0
    /\ setups = IF snowflake_client THEN 1 ELSE 0
    /\ pc = [t \in Specs |-> IF t = 1 THEN "upload" ELSE "idle"]
    /\ started = [t \in Specs |-> IF t = 1 THEN 1 ELSE 0]
    /\ events = [t \in Specs |-> {}]
    /\ partitions = [t \in Specs |-> {}]
    /\ cmds = [t \in Specs |->
                 IF t = 1 /\ snowflake_client THEN <<<<"create_stage", 0>>>> ELSE <<>>]
    /\ remaining_files = [t \in Specs |-> {}]
    /\ \E dir \in SUBSET FileIds :
         local = [t \in Specs |-> IF t = 1 THEN dir ELSE {}]
    /\ written = [t \in Specs |-> IF t = 1 THEN MaxFileId ELSE 0]
    /\ cloudObj = [t \in Specs |-> {}]
    /\ putFiles = [t \in Specs |-> {}]
    /\ stageExists = [t \in Specs |-> t = 1 /\ snowflake_client]
    /\ tableExists = [t \in Specs |-> FALSE]
    /\ loaded = [t \in Specs |-> {}]
    /\ rows = [t \in Specs |-> [f \in FileIds |-> 0]]
    /\ lastLoad = [t \in Specs |-> NoLoad]
    /\ today = 0

NextSweep ==
    \/ DateChange
    \/ \E t \in tables_configs : ListFiles(t)
    \/ \E t \in tables_configs : Transfer(t)

SpecSweep == InitSweep /\ [][NextSweep]_vars

\* one run over replicated specs whose targets may name the same table: no
\* warehouse, files go to object storage
InitShared ==
    /\ tables \in {c \in [Specs -> UNION {SharedInputs(t) : t \in Specs}] :
                    \A t \in Specs : c[t] \in SharedInputs(t)}
    /\ InitFor(filtered_tables_configs)
    /\ ~snowflake_client
    /\ cloud_client
    /\ ~partitionate_data

NextShared ==
    \/ Setup
    \/ Submit
    \/ ExitPool
    \/ CollectResults
    \/ \E t \in tables_configs : StartTask(t)
    \/ \E t \in tables_configs : Extract(t)
    \/ \E t \in tables_configs : ListFiles(t)
    \/ \E t \in tables_configs : Transfer(t)

SpecShared == InitShared /\ [][NextShared]_vars

\* ---- Main.__init__ over the config files --------------------------------
\* main.py lines 38-105: start_replication has returned and the for loop
\* goes to the next config file, whose tables are validated anew
NextConfigFile ==
    /\ orch = "returned"
    /\ run < MaxConfigFiles
    /\ run' = run + 1
    /\ tables' \in {c \in [Specs -> UNION {ConfigInputs(t) : t \in Specs}] :
                     \A t \in Specs : c[t] \in ConfigInputs(t)}
    /\ tables_configs' =
         {t \in Specs : ~validate_if_table_config_is_invalid(tables'[t])}
    /\ orch' = "setup"
    /\ raisedTask' = 0
    /\ setups' = 0
    /\ pc' = [t \in Specs |-> "idle"]
    /\ started' = [t \in Specs |-> 0]
    /\ events' = [t \in Specs |-> {}]
    /\ partitions' = [t \in Specs |-> {}]
    /\ cmds' = [t \in Specs |-> <<>>]
    /\ remaining_files' = [t \in Specs |-> {}]
    /\ UNCHANGED <<batchvars, snowflake_client, stages_type, cloud_client,
                   exclude_file_after_uploading, partitionate_data, max_workers,
                   storevars>>

\* main.py lines 102-105: nothing around the call of start_replication
\* catches, so what it raises leaves Main.__init__ and ends the program
MainRaises ==
    /\ orch = "raised"
    /\ orch' = "exited"
    /\ UNCHANGED <<batchvars, cfgvars, run, raisedTask, setups, taskvars, storevars>>

\* main.py lines 112-113: the for loop has gone through every config file
MainReturns ==
    /\ orch = "returned"
    /\ run = MaxConfigFiles
    /\ orch' = "completed"
    /\ UNCHANGED <<batchvars, cfgvars, run, raisedTask, setups, taskvars, storevars>>

NextFiles ==
    \/ Setup
    \/ Submit
    \/ ExitPool
    \/ CollectResults
    \/ NextConfigFile
    \/ MainRaises
    \/ MainReturns
    \/ \E t \in tables_configs : StartTask(t)
    \/ \E t \in tables_configs : RunStep(t)

SpecFiles == Init /\ [][NextFiles]_vars


\* the pipeline side while one table is extracted in batches
PipelineIdle ==
    /\ snowflake_client = FALSE
    /\ cloud_client = FALSE
    /\ stages_type = "internal"
    /\ exclude_file_after_uploading = TRUE
    /\ partitionate_data = FALSE
    /\ max_workers = 1
    /\ tables = OnlyFirst
    /\ tables_configs = filtered_tables_configs
    /\ run = 1
    /\ orch = "submit"
    /\ raisedTask = 0
    /\ setups = 0
    /\ pc = [t \in Specs |-> IF t = 1 THEN "extract" ELSE "idle"]
    /\ started = [t \in Specs |-> IF t = 1 THEN 1 ELSE 0]
    /\ events = [t \in Specs |-> {}]
    /\ partitions = [t \in Specs |-> {}]
    /\ cmds = [t \in Specs |-> <<>>]
    /\ remaining_files = [t \in Specs |-> {}]
    /\ local = [t \in Specs |-> {}]
    /\ written = [t \in Specs |-> 0]
    /\ cloudObj = [t \in Specs |-> {}]
    /\ putFiles = [t \in Specs |-> {}]
    /\ stageExists = [t \in Specs |-> FALSE]
    /\ tableExists = [t \in Specs |-> FALSE]
    /\ loaded = [t \in Specs |-> {}]
    /\ rows = [t \in Specs |-> [f \in FileIds |-> 0]]
    /\ lastLoad = [t \in Specs |-> NoLoad]
    /\ today = 0

\* lines 117-123: size is set, the row count was obtained and execute_query
\* has returned the generator
InitBatch ==
    /\ PipelineIdle
    /\ size \in 1..MaxSize
    /\ total_records \in 0..MaxRows
    /\ resultRows \in 0..MaxRows
    /\ bpc = "loop"
    /\ BatchStart

NextBatch ==
    \/ FetchRow
    \/ FetchNone
    \/ FetchFails
    \/ LeaveFor
    \/ YieldBatch
    \/ Close

SpecBatch == InitBatch /\ [][NextBatch]_vars

\* the generator is driven by the for loop of task_manager_client.py lines
\* 124-129, which asks for the next batch as long as there is one, and
\* fetchone returns or raises
SpecBatchLive == SpecBatch /\ WF_vars(NextBatch)

\* ---- properties ---------------------------------------------------------
\* start_replication has gone through the pool and its result loop
Ended == orch = "returned" \/ (orch = "raised" /\ raisedTask # 0)

\* start_replication raised before the pool was created
SetupRaised == orch = "raised" /\ raisedTask = 0

StepsIssued(t) == [i \in 1..Len(cmds[t]) |-> cmds[t][i][1]]

Transfers == {"put", "upload"}

Ceil(n, b) == (n + b - 1) \div b

\* C1 (Spec): a task ends as failed only through a step of its own, and
\* when start_replication ends every spec of the run has either failed in
\* one of its own steps or run all of its steps; a failed sibling neither
\* cancels nor skips it.
C1_Isolation ==
    \A t \in tables_configs :
      /\ pc[t] = "failed" => (started[t] = 1 /\ cmds[t] # <<>>)
      /\ Ended => \/ pc[t] = "failed"
                  \/ pc[t] = "done" /\ StepsIssued(t) = Steps

C1_Witness ==
    /\ Ended
    /\ \E t, u \in tables_configs :
         /\ pc[t] = "failed"
         /\ pc[u] = "done"
         /\ StepsIssued(u) = Steps

\* C2 (Spec): start_replication never re-raises the exception of a table
\* pipeline to its caller.
C2_NeverReraises == raisedTask = 0

C4_JoinAll ==
    orch \in {"results", "returned", "raised"}
      => \A t \in tables_configs : pc[t] \in TerminalPcs \cup {"idle"}

C4_Witness ==
    /\ orch = "raised"
    /\ raisedTask # 0
    /\ \E t \in tables_configs : t # raisedTask /\ pc[t] = "done"
    /\ \A t \in tables_configs : pc[t] \in TerminalPcs

\* C5 (SpecTable): with a warehouse configured, every transfer of an
\* invocation comes after its stage-creation command, and the
\* table-creation, delete and copy commands come after every transfer.
C5_Order ==
    \A t \in tables_configs :
      snowflake_client =>
        \A i \in 1..Len(cmds[t]) :
          /\ cmds[t][i][1] \in Transfers
               => \E j \in 1..(i - 1) : cmds[t][j][1] = "create_stage"
          /\ cmds[t][i][1] \in {"create_table", "delete", "copy"}
               => \A j \in 1..Len(cmds[t]) : cmds[t][j][1] \in Transfers => j < i

C5_Witness ==
    /\ snowflake_client
    /\ \E t \in tables_configs :
         /\ pc[t] = "done"
         /\ \E i, j, k \in 1..Len(cmds[t]) :
              /\ i < j /\ j < k
              /\ cmds[t][i][1] = "create_stage"
              /\ cmds[t][j][1] \in Transfers
              /\ cmds[t][k][1] = "copy"

\* C6 (SpecTable), as claimed: a load that succeeds against the same staged
\* files as the successful load before it leaves the row count that load left.
C6_Original ==
    \A t \in tables_configs : lastLoad[t].repeat => RowCount(t) = lastLoad[t].first

\* C6 (SpecTable), amended: a load that succeeds against the same staged
\* files as the successful load before it leaves the target table empty.
C6_SecondLoadEmpties ==
    \A t \in tables_configs : lastLoad[t].repeat => RowCount(t) = 0

C6_Witness ==
    \E t \in tables_configs :
      /\ lastLoad[t].repeat
      /\ lastLoad[t].first > 0
      /\ lastLoad[t].staged # {}
      /\ RowCount(t) = 0

\* C7 (SpecTable): over any sequence of runs the rows of a staged file are
\* in the target table at most once.
C7_NoDuplicates ==
    \A t \in tables_configs : \A f \in FileIds : rows[t][f] <= 1

C7_Witness ==
    /\ run > 1
    /\ \E t \in tables_configs :
         /\ pc[t] = "done"
         /\ Cardinality(loaded[t]) > 1
         /\ \E f \in FileIds : rows[t][f] = 1

C9_DeletedOnlyIfTransferred ==
    \A t \in tables_configs :
      \A f \in 1..written[local_storage_path(t)] : f \notin local[local_storage_path(t)] => f \in putFiles[t] \cup cloudObj[t]

Yielded == UNION {{files[i][j] : j \in 1..Len(files[i])} : i \in 1..Len(files)}

\* C11 (SpecBatch): when the generator has stopped, the rows yielded are
\* the rows of the result set without exactly those whose fetch failed; a
\* failed fetch never keeps the rows after it from being extracted.
C11_UnionComplete ==
    (bpc = "closed" /\ resultRows = total_records)
      => Yielded = (1..resultRows) \ failedRows

\* commands of the invocation of t issued so far, by name
Issued(t) == {cmds[t][i][1] : i \in 1..Len(cmds[t])}

\* C12 (SpecTable): an invocation whose extraction result set was empty
\* issues no stage creation, no transfer, no table creation and no load.
C12_EmptyStopsPipeline ==
    \A t \in tables_configs : "empty_result" \in events[t] => cmds[t] = <<>>

\* C13 (SpecTable): an invocation whose source query failed ends as failed
\* and issues none of the later steps.
C13_QueryFailureEndsPipeline ==
    \A t \in tables_configs :
      "query_failed" \in events[t] => (pc[t] = "failed" /\ cmds[t] = <<>>)

\* C14 (SpecTable): an invocation whose stage-creation command failed ends
\* as failed and issues no PUT, no table creation and no load.
C14_StageFailureEndsPipeline ==
    \A t \in tables_configs :
      "create_stage_failed" \in events[t]
        => /\ pc[t] = "failed"
           /\ Issued(t) \cap {"put", "create_table", "delete", "copy"} = {}

\* C15 (SpecTable): the delete and copy commands of the load are issued
\* only when the target table exists.
C15_LoadOnlyOnExistingTable ==
    \A t \in tables_configs :
      Issued(t) \cap {"delete", "copy"} # {} => tableExists[t]

\* C16 (SpecTable): an invocation whose load failed ends as failed and
\* does not issue the view creation.
C16_LoadFailureEndsPipeline ==
    \A t \in tables_configs :
      "load_failed" \in events[t] => (pc[t] = "failed" /\ "view" \notin Issued(t))

\* C17 (SpecSweep): all the files an invocation uploads to object storage
\* go under one year=/month=/day= partition segment, also when the date
\* changes during the sweep.
C17_OnePartition ==
    \A t \in tables_configs : Cardinality(partitions[t]) <= 1

\* files the invocation of t has tried to transfer so far
Attempted(t) ==
    {cmds[t][i][2] : i \in {j \in 1..Len(cmds[t]) : cmds[t][j][1] \in Transfers}}

\* the invocation of t is past its sweep
PastSweep(t) ==
    \/ pc[t] \in {"create_table", "copy", "view", "done"}
    \/ "create_table" \in Issued(t)

\* C18 (SpecTable): during the sweep every file of the local directory is
\* still to be handled or was attempted, and after the sweep every file
\* left in the directory was attempted by this invocation, whichever run
\* wrote it.
C18_SweepsWholeDirectory ==
    \A t \in tables_configs :
      /\ pc[t] = "transfer" => local[local_storage_path(t)] \subseteq remaining_files[t] \cup Attempted(t)
      /\ (PastSweep(t) /\ (snowflake_client \/ cloud_client))
           => local[local_storage_path(t)] \subseteq Attempted(t)

C18_Witness ==
    /\ run > 1
    /\ \E t \in tables_configs :
         /\ PastSweep(t)
         /\ local[local_storage_path(t)] # {}
         /\ Cardinality(Attempted(t)) > MaxNewFiles
         /\ Attempted(t) = 1..written[local_storage_path(t)]

\* C19 (Spec): a table entry with replicate=false is not among the specs
\* handed to start_replication, and no task is ever queued, started or
\* run for it.
C19_NotReplicatedNotDispatched ==
    \A t \in Specs :
      ~tables[t].replicate
        => /\ t \notin tables_configs
           /\ pc[t] = "idle"
           /\ started[t] = 0
           /\ cmds[t] = <<>>

C19_Witness ==
    /\ orch = "returned"
    /\ \E t, u \in Specs :
         /\ ~tables[t].replicate
         /\ tables[t].table_name \in source_db_tables
         /\ tables[t].file_format \in VALID_FILE_FORMATS
         /\ pc[t] = "idle"
         /\ pc[u] = "done"
         /\ StepsIssued(u) = Steps

\* C20 (Spec): at every moment the number of table pipelines that are
\* executing is at most max_workers.
C20_BoundedConcurrency == Running <= max_workers

C20_Witness ==
    /\ Running = max_workers
    /\ max_workers < Cardinality(tables_configs)
    /\ \E t \in tables_configs : pc[t] = "queued"

\* C21 (Spec): with a warehouse configured the namespace setup runs at
\* most once per start_replication call, it has run once the call is past
\* it, and a task is submitted or started only after it has returned.
C21_SetupOnceBeforeTasks ==
    snowflake_client =>
      /\ setups <= 1
      /\ orch # "setup" => setups = 1
      /\ \A t \in tables_configs :
           pc[t] # "idle" => (setups = 1 /\ ~SetupRaised)

C21_Witness ==
    /\ snowflake_client
    /\ setups = 1
    /\ orch = "returned"
    /\ Cardinality(tables_configs) > 1
    /\ \A t \in tables_configs : pc[t] = "done"

\* files the invocation of t wrote in bulk mode
BulkWritten(t) ==
    {cmds[t][i][2] : i \in {j \in 1..Len(cmds[t]) : cmds[t][j][1] = "write_file"}}

\* the invocation of t ran to its end and none of its steps failed
AllSucceeded(t) ==
    /\ pc[t] = "done"
    /\ events[t] = {}
    /\ Issued(t) \cap {"put_failed", "upload_failed"} = {}

\* what C22 says of the invocation of t: one file written, transferred to
\* the stage and deleted, the table created and holding the file's rows
EndToEnd(t) ==
    /\ Cardinality(BulkWritten(t)) = 1
    /\ BulkWritten(t) \subseteq Attempted(t)
    /\ BulkWritten(t) \subseteq StageFiles(t)
    /\ BulkWritten(t) \cap local[local_storage_path(t)] = {}
    /\ tableExists[t]
    /\ RowCount(t) = RowsPerFile

C22_WhenExcluding ==
    \A t \in tables_configs :
      (snowflake_client /\ exclude_file_after_uploading
         /\ AllSucceeded(t) /\ BulkWritten(t) # {}) => EndToEnd(t)

Has(t, name, f) == \E i \in 1..Len(cmds[t]) : cmds[t][i] = <<name, f>>

\* neither transfer of f by the invocation of t worked
TransferFailed(t, f) ==
    /\ Has(t, "put", f) => Has(t, "put_failed", f)
    /\ Has(t, "upload", f) => Has(t, "upload_failed", f)

\* C23 (SpecSweep): with exclude_file_after_uploading set, after a sweep
\* every listed file was attempted and the files of the sweep still in the
\* local directory are exactly those whose transfers failed.
C23_ExactlyFailedRemain ==
    \A t \in tables_configs :
      (exclude_file_after_uploading /\ PastSweep(t))
        => /\ local[local_storage_path(t)] \subseteq Attempted(t)
           /\ local[local_storage_path(t)] \cap Attempted(t) = {f \in Attempted(t) : TransferFailed(t, f)}

\* C24 (SpecTable): a table-creation step taken when the table exists
\* leaves the table in place with the rows it had, and a table that exists
\* never ceases to exist.
C24_CreatedOnlyIfAbsent ==
    [][\A t \in tables_configs :
         tableExists[t]
           => /\ tableExists'[t]
              /\ (pc[t] = "create_table" /\ pc'[t] # "create_table")
                   => rows'[t] = rows[t]]_vars

C24_Witness ==
    /\ run > 1
    /\ \E t \in tables_configs :
         /\ pc[t] = "copy"
         /\ "create_table_failed" \notin events[t]
         /\ tableExists[t]
         /\ RowCount(t) > 0

\* the local files the invocation of t wrote, by directory and file
WrittenBy(t) ==
    {<<local_storage_path(t), cmds[t][i][2]>> :
       i \in {j \in 1..Len(cmds[t]) : cmds[t][j][1] \in {"write_file", "write_batch"}}}

\* the local files the invocation of t listed or transferred
Touched(t) ==
    {<<local_storage_path(t), f>> : f \in remaining_files[t] \cup Attempted(t)}

\* the invocations of t and u are both under way
Concurrent(t, u) ==
    /\ t # u
    /\ pc[t] \in RunningPcs
    /\ pc[u] \in RunningPcs

\* C25 (SpecShared): of two pipelines of one run that execute concurrently,
\* neither lists or transfers a local file written by the other, including
\* when specs use table_renamed.
C25_NoSharedFiles ==
    \A t, u \in tables_configs :
      Concurrent(t, u) => Touched(t) \cap WrittenBy(u) = {}

\* C26 (SpecSweep): execute_put returned True for a file only if the PUT of
\* that file did not fail in the warehouse.
C26_PutStatusFaithful ==
    \A t \in tables_configs : \A f \in FileIds :
      Has(t, "put_true", f) => (~Has(t, "put_failed", f) /\ f \in putFiles[t])

\* number of entries <<name, f>> the invocation of t logged
Times(t, name, f) ==
    Cardinality({i \in 1..Len(cmds[t]) : cmds[t][i] = <<name, f>>})

\* C27 (SpecSweep): within one invocation a file gets at most one PUT and
\* at most one object-storage upload, whatever their outcome.
C27_NoRetry ==
    \A t \in tables_configs : \A f \in FileIds :
      Times(t, "put", f) <= 1 /\ Times(t, "upload", f) <= 1

C27_Witness ==
    \E t \in tables_configs :
      /\ PastSweep(t)
      /\ Cardinality(Attempted(t)) > 1
      /\ \E f \in Attempted(t) :
           /\ TransferFailed(t, f)
           /\ f \in local[local_storage_path(t)]
           /\ Times(t, "put", f) + Times(t, "upload", f) = 2

\* position of the entry <<name, f>> in the log of t, 0 if there is none
Position(t, name, f) ==
    IF Has(t, name, f)
    THEN Min({i \in 1..Len(cmds[t]) : cmds[t][i] = <<name, f>>}) ELSE 0

\* C28 (SpecSweep): every file attempted gets a PUT exactly when the
\* warehouse uses internal stages and an upload exactly when object storage
\* is configured, whether or not the PUT worked, and its PUT comes before
\* its upload.
C28_DirectFirstThenUpload ==
    \A t \in tables_configs : \A f \in FileIds :
      /\ Has(t, "put", f) => (snowflake_client /\ stages_type = "internal")
      /\ Has(t, "upload", f) => cloud_client
      /\ f \in Attempted(t) =>
           /\ (snowflake_client /\ stages_type = "internal") => Has(t, "put", f)
           /\ cloud_client => Has(t, "upload", f)
           /\ (Has(t, "put", f) /\ Has(t, "upload", f))
                => Position(t, "put", f) < Position(t, "upload", f)

C28_Witness ==
    /\ cloud_client
    /\ \E t \in tables_configs :
         /\ PastSweep(t)
         /\ \E f, g \in Attempted(t) :
              /\ Has(t, "put_failed", f) /\ Has(t, "upload", f)
              /\ ~Has(t, "put_failed", g) /\ Has(t, "put", g) /\ Has(t, "upload", g)

\* commands sent to the warehouse
WarehouseCommands == {"create_stage", "put", "create_table", "delete", "copy", "view"}

\* C29 (SpecTable): without a warehouse no namespace setup runs and no
\* warehouse command is issued; without a warehouse and without object
\* storage no transfer is attempted and every file written is still in the
\* local directory.
C29_OptionalCollaborators ==
    \A t \in tables_configs :
      /\ ~snowflake_client => (setups = 0 /\ Issued(t) \cap WarehouseCommands = {})
      /\ (~snowflake_client /\ ~cloud_client)
           => (Attempted(t) = {} /\ local[local_storage_path(t)] = 1..written[local_storage_path(t)])

C29_Witness ==
    /\ ~snowflake_client
    /\ ~cloud_client
    /\ run > 1
    /\ orch = "returned"
    /\ \E t \in tables_configs : pc[t] = "done" /\ Cardinality(local[local_storage_path(t)]) > 1

\* C30 (SpecTable): after a load whose delete and copy both succeeded, the
\* table holds once the rows of each stage file that had no load record
\* before the load, and nothing else.
C30_LoadReplacesRows ==
    \A t \in tables_configs :
      lastLoad[t].ok
        => rows[t] = [f \in FileIds |-> IF f \in lastLoad[t].fresh THEN 1 ELSE 0]

C30_Witness ==
    \E t \in tables_configs :
      /\ lastLoad[t].ok
      /\ lastLoad[t].first > 0
      /\ lastLoad[t].fresh # {}
      /\ lastLoad[t].fresh # lastLoad[t].staged
      /\ RowCount(t) = RowsPerFile * Cardinality(lastLoad[t].fresh)

\* C31 (SpecTable): after a load whose delete succeeded and whose copy
\* failed, the table holds the rows it held before the load.
C31_FailedLoadKeepsRows ==
    \A t \in tables_configs :
      "copy_failed" \in events[t] => RowCount(t) = lastLoad[t].first

\* C32 (SpecFiles): a program run that the failure of a table pipeline
\* brought to its end has gone through every config file.
C32_FailureKeepsLaterFiles ==
    (orch = "exited" /\ raisedTask # 0) => run = MaxConfigFiles

\* C33 (SpecBatchLive): for every batch size, upfront count, result set and
\* pattern of fetch outcomes the batch generator comes to its end.
C33_GeneratorTerminates == <>(bpc = "closed")

C33_Witness ==
    /\ bpc = "closed"
    /\ batch_count > 1
    /\ count_failed > 0
    /\ fetched = resultRows

\* an extraction whose every fetch raised has ended as well
C33_AllFetchesFail ==
    /\ bpc = "closed"
    /\ resultRows > 0
    /\ total_records > 0
    /\ count = 0
    /\ count_failed = size

\* C34 (SpecBatch): the rows written to the batch files are never more than
\* the upfront row count, also when the result set holds more rows than
\* were counted, and every batch file holds between 1 and size rows.
C34_RowsWithinCount ==
    /\ Cardinality(Yielded) + Len(batch) <= total_records
    /\ \A i \in 1..Len(files) : Len(files[i]) \in 1..size

C34_Witness ==
    /\ bpc = "closed"
    /\ resultRows > total_records
    /\ Len(files) > 1
    /\ Cardinality(Yielded) = total_records
    /\ \E i \in 1..Len(files) : Len(files[i]) = size /\ size > 1

\* C35 (SpecLive): every spec put in the pool's queue is started in the
\* end, and start_replication comes to its end: it returns or, a pipeline
\* having failed, leaves by the re-raise of lines 252-253; this whatever the
\* number of specs and of workers.
C35_PoolLiveness ==
    /\ \A t \in Specs : (pc[t] = "queued") ~> (started[t] = 1)
    /\ <>(orch \in {"returned", "raised"})

C35_Witness ==
    /\ orch = "returned"
    /\ Cardinality(tables_configs) > max_workers
    /\ \A t \in tables_configs : started[t] = 1 /\ pc[t] = "done"

\* C36 (SpecBatch): the batch files one invocation writes have pairwise
\* distinct names, one name per batch yielded.
C36_DistinctBatchFiles ==
    \A t \in Specs :
      /\ pc[t] = "extract" => Len(cmds[t]) = Len(files)
      /\ \A i, j \in 1..Len(cmds[t]) :
           (i # j /\ cmds[t][i][1] = "write_batch" /\ cmds[t][j][1] = "write_batch")
             => cmds[t][i][2] # cmds[t][j][2]

C36_Witness ==
    /\ bpc = "closed"
    /\ Len(files) > 2
    /\ count_failed > 0
    /\ \E t \in Specs : pc[t] = "extract" /\ Len(cmds[t]) = Len(files)
====
